---- MODULE Spec2Model ----
(***************************************************************************)
(* A model of k8sfs: the in-memory inode table of K8sFS (filesystem.rs),   *)
(* the ResourceFile entries it holds (k8s_resource.rs) and the FUSE        *)
(* handlers init, lookup, getattr, mkdir, rmdir, read and readdir.         *)
(*                                                                         *)
(* A file name is a sequence of tokens; the suffix "_definition.yaml" is   *)
(* one token, so format!("{}{}", name, SUFFIX) is Append and ends_with is  *)
(* a test of the last token.  kubectl is the environment: every call to it *)
(* is an input of the action that makes the call.                          *)
(***************************************************************************)
EXTENDS Integers, Sequences, FiniteSets, TLC

VARIABLES
    pc,           \* "new" after K8sFS::new, "mounted" after init, "crashed" after a panic
    inode_table,  \* K8sFS.inode_table : Inode -> (ResourceFile, Vec<Inode>)
    next_inode,   \* K8sFS.next_inode
    reply,        \* what the last handler sent to its reply object
    allocated,    \* history: the identifiers calculate_next_inode returned, in order
    removed,      \* history: the identifiers clean_up_inode removed from the table
    listing       \* a client listing one directory by repeated readdir calls

vars == <<pc, inode_table, next_inode, reply, allocated, removed, listing>>

----------------------------------------------------------------------------
(* Bounds *)

MaxNs == 2        \* namespaces the backend reports at init
MaxPods == 1      \* pods the backend reports per namespace
MaxInode == 8     \* mkdir is not called once next_inode has reached this
MaxContent == 1   \* bytes of a describe output
MaxOffset == 2    \* read / readdir offsets
MaxSize == 1      \* requested read sizes
MaxCap == 2       \* entries a readdir reply buffer accepts

----------------------------------------------------------------------------
(* Program constants *)

ROOT_INODE == 0
CONTEXT_INODE == 1
FIRST_INODE == 2
BLOCK_SIZE == 1024
DEFINITION_FILE_SUFFIX == "_definition.yaml"
ENOENT == 2
EPERM == 1
ENOBUFS == 105

----------------------------------------------------------------------------
(* Inputs *)

ContextNames == {<<"ctx">>}
NamespaceNames == {<<"a">>, <<"b">>}
PodNames == {<<"p">>, <<"q">>}
\* names the kernel passes to lookup, mkdir and rmdir
RequestNames == NamespaceNames \cup {<<"a", DEFINITION_FILE_SUFFIX>>}

\* sequences of length at most n over S
RECURSIVE SeqsUpTo(_, _)
SeqsUpTo(S, n) ==
    IF n = 0 THEN {<<>>}
    ELSE LET shorter == SeqsUpTo(S, n - 1)
         IN  shorter \cup {Append(s, x) : s \in shorter, x \in S}

Range(s) == {s[i] : i \in 1..Len(s)}

NoRepeat(s) == \A i, j \in 1..Len(s) : s[i] = s[j] => i = j

\* what kubectl::namespaces and kubectl::pods report: each namespace with its pods
\* kubectl reports no name twice in one listing
ClusterListings ==
    LET podLists == {s \in SeqsUpTo(PodNames, MaxPods) : NoRepeat(s)}
        entries  == [name : NamespaceNames, pods : podLists]
    IN  {s \in SeqsUpTo(entries, MaxNs) : NoRepeat([i \in 1..Len(s) |-> s[i].name])}

\* the bytes of a describe output: prefixes of one document
Document == <<7, 8, 9, 10>>
Contents == {SubSeq(Document, 1, n) : n \in 0..MaxContent}

\* std::io::Result<Output> of a kubectl command: spawn error, or exit status and stdout
CommandOutcomes ==
    {[ok |-> FALSE, success |-> FALSE, stdout |-> <<>>],
     [ok |-> TRUE, success |-> FALSE, stdout |-> SubSeq(Document, 1, 1)]}
    \cup {[ok |-> TRUE, success |-> TRUE, stdout |-> c] : c \in Contents}

\* the command was not executed
NotRun == [ok |-> FALSE, success |-> FALSE, stdout |-> <<>>]

\* the outcomes of a command that a handler runs only when run holds
OutcomesIf(run) == IF run THEN CommandOutcomes ELSE {NotRun}

----------------------------------------------------------------------------
(* k8s_resource.rs *)

build_kubectl_command(action, resource_type, context, namespace, resource_name) ==
    CASE resource_type = "Namespace" ->
            <<"kubectl", "--context", context, action, "namespaces", resource_name>>
      [] resource_type = "Pod" ->
            <<"kubectl", "--context", context, "--namespace", namespace,
              action, "pods", resource_name>>
      [] OTHER -> <<"Files of type", resource_type, "do not support", action>>

ResourceFile_new(inode, parent, resource_name, resource_type, context, namespace) ==
    [inode |-> inode,
     parent |-> parent,
     resource_type |-> resource_type,
     name |-> resource_name,
     delete_cmd |-> build_kubectl_command("delete", resource_type, context,
                                          namespace, resource_name),
     description_cmd |-> build_kubectl_command("describe", resource_type, context,
                                               namespace, resource_name)]

create_definition_file(self, inode) ==
    [inode |-> inode,
     parent |-> self.parent,
     resource_type |-> self.resource_type,
     name |-> Append(self.name, DEFINITION_FILE_SUFFIX),
     delete_cmd |-> self.delete_cmd,
     description_cmd |-> self.description_cmd]

is_definition_file(self) ==
    Len(self.name) > 0 /\ self.name[Len(self.name)] = DEFINITION_FILE_SUFFIX

filetype(self) ==
    IF is_definition_file(self) THEN "RegularFile" ELSE "Directory"

\* out is the outcome of executing self.description_cmd
get_desc(self, out) ==
    IF filetype(self) # "RegularFile" THEN <<>>
    ELSE IF out.ok
         THEN IF out.success THEN out.stdout ELSE <<>>
         ELSE <<>>

size(self, out) ==
    IF filetype(self) = "RegularFile" THEN Len(get_desc(self, out)) ELSE 0

fileattrs(self, out) ==
    LET permissions == IF filetype(self) = "Directory" THEN 365 ELSE 292
        file_size == size(self, out)
        file_block_size == IF file_size > 0
                           THEN (file_size + BLOCK_SIZE - 1) \div file_size
                           ELSE 0
    IN  [ino |-> self.inode,
         size |-> file_size,
         blocks |-> file_block_size,
         kind |-> filetype(self),
         perm |-> permissions,
         blksize |-> BLOCK_SIZE]

\* out is the outcome of executing self.delete_cmd
delete(self, out) ==
    IF out.ok THEN out.success ELSE FALSE

\* the commands get_desc executes: none for a directory
get_desc_commands(self) ==
    IF filetype(self) # "RegularFile" THEN <<>> ELSE <<self.description_cmd>>

----------------------------------------------------------------------------
(* kubectl.rs *)

create_namespace_command(name, context) ==
    <<"kubectl", "--context", context, "create", "namespace", name>>

----------------------------------------------------------------------------
(* filesystem.rs: K8sFS.  A value fs is the struct: inode_table and        *)
(* next_inode, together with the history of the identifiers handed out.   *)

\* BTreeMap::insert
Insert(table, key, value) ==
    [k \in DOMAIN table \cup {key} |-> IF k = key THEN value ELSE table[k]]

\* BTreeMap::remove
Remove(table, key) ==
    [k \in DOMAIN table \ {key} |-> table[k]]

\* Vec::remove(index), index counted from 1
RemoveAt(s, index) ==
    [i \in 1..(Len(s) - 1) |-> IF i < index THEN s[i] ELSE s[i + 1]]

\* Iterator::position, counted from 1; 0 when there is none
Position(s, x) ==
    IF \E i \in 1..Len(s) : s[i] = x
    THEN CHOOSE i \in 1..Len(s) : s[i] = x /\ \A j \in 1..(i - 1) : s[j] # x
    ELSE 0

\* K8sFS::new whose allocator starts at the context's identifier
K8sFS_new_from_context ==
    [inode_table |-> <<>>, next_inode |-> CONTEXT_INODE, allocated |-> <<>>]

K8sFS_new ==
    [inode_table |-> <<>>, next_inode |-> FIRST_INODE, allocated |-> <<>>]

\* calculate_next_inode without the increment of next_inode
calculate_next_inode_no_advance(fs) ==
    [inode |-> fs.next_inode,
     fs |-> [fs EXCEPT !.allocated = Append(@, fs.next_inode)]]

calculate_next_inode(fs) ==
    LET inode == fs.next_inode
    IN  [inode |-> inode,
         fs |-> [fs EXCEPT !.next_inode = @ + 1,
                           !.allocated = Append(@, inode)]]

build_resource_file(fs, name, resource_type, parent_inode, context, namespace) ==
    LET first == calculate_next_inode(fs)
        inode == first.inode
        file == ResourceFile_new(inode, parent_inode, name, resource_type,
                                 context, namespace)
        second == calculate_next_inode(first.fs)
        definition_file == create_definition_file(file, second.inode)
        children == <<definition_file.inode>>
        with_definition == Insert(second.fs.inode_table, definition_file.inode,
                                  [file |-> definition_file, children |-> <<>>])
        with_file == Insert(with_definition, inode,
                            [file |-> file, children |-> children])
    IN  [inode |-> inode,
         fs |-> [second.fs EXCEPT !.inode_table = with_file]]

\* add_child_to_inode that forgets the push
add_child_to_inode_no_push(fs, parent, child) == fs

add_child_to_inode(fs, parent, child) ==
    [fs EXCEPT !.inode_table[parent].children = Append(@, child)]

\* the loop over kubectl::pods of one namespace
RECURSIVE initialize_pods(_, _, _, _, _)
initialize_pods(fs, pods, namespace_inode, context, namespace) ==
    IF pods = <<>> THEN fs
    ELSE LET built == build_resource_file(fs, Head(pods), "Pod", namespace_inode,
                                          context, namespace)
             linked == add_child_to_inode(built.fs, namespace_inode, built.inode)
         IN  initialize_pods(linked, Tail(pods), namespace_inode, context, namespace)

\* the loop over kubectl::namespaces
RECURSIVE initialize_namespaces(_, _, _)
initialize_namespaces(fs, cluster, context) ==
    IF cluster = <<>> THEN fs
    ELSE LET namespace == Head(cluster).name
             built == build_resource_file(fs, namespace, "Namespace", CONTEXT_INODE,
                                          context, namespace)
             linked == add_child_to_inode(built.fs, CONTEXT_INODE, built.inode)
             with_pods == initialize_pods(linked, Head(cluster).pods, built.inode,
                                          context, namespace)
         IN  initialize_namespaces(with_pods, Tail(cluster), context)

initialize_inode_table(fs, context, cluster) ==
    LET root == ResourceFile_new(ROOT_INODE, ROOT_INODE, <<"root">>, "Root",
                                 <<>>, <<>>)
        context_file == ResourceFile_new(CONTEXT_INODE, ROOT_INODE, context,
                                         "Context", context, <<>>)
        with_root == Insert(fs.inode_table, root.inode,
                            [file |-> root, children |-> <<context_file.inode>>])
        with_context == Insert(with_root, context_file.inode,
                               [file |-> context_file, children |-> <<>>])
    IN  initialize_namespaces([fs EXCEPT !.inode_table = with_context],
                              cluster, context)

\* Option<&ResourceFile>: <<>> is None, <<file>> is Some(file)
RECURSIVE find_child(_, _, _, _)
find_child(table, children, index, name) ==
    IF index > Len(children) THEN <<>>
    ELSE IF children[index] \in DOMAIN table
              /\ table[children[index]].file.name = name
         THEN <<table[children[index]].file>>
         ELSE find_child(table, children, index + 1, name)

\* get_file_by_name whose scan stops one child too early
get_file_by_name_short_scan(fs, name, parent_inode) ==
    IF parent_inode \in DOMAIN fs.inode_table
    THEN LET children == fs.inode_table[parent_inode].children
         IN  find_child(fs.inode_table, SubSeq(children, 1, Len(children) - 1),
                        1, name)
    ELSE <<>>

get_file_by_name(fs, name, parent_inode) ==
    IF parent_inode \in DOMAIN fs.inode_table
    THEN find_child(fs.inode_table, fs.inode_table[parent_inode].children, 1, name)
    ELSE <<>>

get_file_by_inode(fs, inode) ==
    IF inode \in DOMAIN fs.inode_table
    THEN <<fs.inode_table[inode].file>>
    ELSE <<>>

\* clean_up_inode that leaves the identifier in the parent's children
clean_up_inode_keep_link(fs, inode, parent) ==
    [fs EXCEPT !.inode_table = Remove(fs.inode_table, inode)]

clean_up_inode(fs, inode, parent) ==
    LET without == Remove(fs.inode_table, inode)
    IN  IF parent \in DOMAIN without
        THEN LET index == Position(without[parent].children, inode)
             IN  IF index > 0
                 THEN [fs EXCEPT !.inode_table =
                          [without EXCEPT ![parent].children = RemoveAt(@, index)]]
                 ELSE [fs EXCEPT !.inode_table = without]
        ELSE [fs EXCEPT !.inode_table = without]

----------------------------------------------------------------------------
(* filesystem.rs: impl Filesystem for K8sFS.  Each handler is an operator   *)
(* from the struct and the request to the struct afterwards and the reply. *)

NoAttr == [ino |-> 0, size |-> 0, blocks |-> 0, kind |-> "none", perm |-> 0,
           blksize |-> 0]

Reply(status) ==
    [status |-> status, errno |-> 0, attr |-> NoAttr, data |-> <<>>,
     entries |-> <<>>]

ReplyError(errno) == [Reply("error") EXCEPT !.errno = errno]
ReplyEntry(attr) == [Reply("entry") EXCEPT !.attr = attr]
ReplyAttr(attr) == [Reply("attr") EXCEPT !.attr = attr]
ReplyData(data) == [Reply("data") EXCEPT !.data = data]
ReplyOk == Reply("ok")
\* the handler panicked before it used its reply object
Panic == Reply("panic")

\* out: the outcome of the describe command that fileattrs runs for a regular file
lookup(fs, parent, name, out) ==
    LET file == get_file_by_name(fs, name, parent)
    IN  [fs |-> fs,
         commands |-> IF file # <<>> THEN get_desc_commands(file[1]) ELSE <<>>,
         reply |-> IF file # <<>>
                   THEN ReplyEntry(fileattrs(file[1], out))
                   ELSE ReplyError(ENOENT)]

\* getattr that takes an identifier from the allocator
getattr_allocating(fs, inode, out) ==
    LET file == get_file_by_inode(fs, inode)
    IN  [fs |-> calculate_next_inode(fs).fs,
         commands |-> IF file # <<>> THEN get_desc_commands(file[1]) ELSE <<>>,
         reply |-> IF file # <<>>
                   THEN ReplyAttr(fileattrs(file[1], out))
                   ELSE ReplyError(ENOENT)]

getattr(fs, inode, out) ==
    LET file == get_file_by_inode(fs, inode)
    IN  [fs |-> fs,
         commands |-> IF file # <<>> THEN get_desc_commands(file[1]) ELSE <<>>,
         reply |-> IF file # <<>>
                   THEN ReplyAttr(fileattrs(file[1], out))
                   ELSE ReplyError(ENOENT)]

\* mkdir that builds the namespace before it looks at the result of the create
\* command
mkdir_build_first(fs, parent, name, created, out) ==
    IF parent = CONTEXT_INODE
    THEN LET context == fs.inode_table[CONTEXT_INODE].file.name
             create == create_namespace_command(name, context)
             built == build_resource_file(fs, name, "Namespace", CONTEXT_INODE,
                                          context, name)
             linked == add_child_to_inode(built.fs, CONTEXT_INODE, built.inode)
             file == linked.inode_table[built.inode].file
         IN  IF ~created
             THEN [fs |-> built.fs, commands |-> <<create>>,
                   reply |-> ReplyError(EPERM)]
             ELSE [fs |-> linked,
                   commands |-> <<create>> \o get_desc_commands(file),
                   reply |-> ReplyEntry(fileattrs(file, out))]
    ELSE [fs |-> fs, commands |-> <<>>, reply |-> ReplyError(EPERM)]

\* created: the result of kubectl::create_namespace
mkdir(fs, parent, name, created, out) ==
    IF parent = CONTEXT_INODE
    THEN LET context == fs.inode_table[CONTEXT_INODE].file.name
             create == create_namespace_command(name, context)
         IN  IF ~created
             THEN [fs |-> fs, commands |-> <<create>>,
                   reply |-> ReplyError(EPERM)]
             ELSE LET built == build_resource_file(fs, name, "Namespace",
                                                   CONTEXT_INODE, context, name)
                      linked == add_child_to_inode(built.fs, CONTEXT_INODE,
                                                   built.inode)
                      file == linked.inode_table[built.inode].file
                  IN  [fs |-> linked,
                       commands |-> <<create>> \o get_desc_commands(file),
                       reply |-> ReplyEntry(fileattrs(file, out))]
    ELSE [fs |-> fs, commands |-> <<>>, reply |-> ReplyError(EPERM)]

\* rmdir that cleans the table up before it looks at the result of the delete
\* command
rmdir_clean_first(fs, parent, name, out) ==
    IF parent = CONTEXT_INODE
    THEN LET file == get_file_by_name(fs, name, parent)
             commands == IF file # <<>> THEN <<file[1].delete_cmd>> ELSE <<>>
             cleaned == IF file # <<>>
                        THEN clean_up_inode(fs, file[1].inode, file[1].parent)
                        ELSE fs
         IN  [fs |-> cleaned,
              commands |-> commands,
              reply |-> IF file # <<>> /\ ~delete(file[1], out)
                        THEN ReplyError(EPERM) ELSE ReplyOk]
    ELSE [fs |-> fs, commands |-> <<>>, reply |-> ReplyError(EPERM)]

\* out: the outcome of the delete command, run only when the name resolves
rmdir(fs, parent, name, out) ==
    IF parent = CONTEXT_INODE
    THEN LET file == get_file_by_name(fs, name, parent)
             commands == IF file # <<>> THEN <<file[1].delete_cmd>> ELSE <<>>
         IN  IF file # <<>> /\ ~delete(file[1], out)
             THEN [fs |-> fs, commands |-> commands, reply |-> ReplyError(EPERM)]
             ELSE LET inode_to_delete == IF file # <<>> THEN file[1].inode ELSE 0
                      inode_to_delete_parent ==
                          IF file # <<>> THEN file[1].parent ELSE 0
                  IN  [fs |-> IF inode_to_delete > 0 /\ parent > 0
                              THEN clean_up_inode(fs, inode_to_delete,
                                                  inode_to_delete_parent)
                              ELSE fs,
                       commands |-> commands,
                       reply |-> ReplyOk]
    ELSE [fs |-> fs, commands |-> <<>>, reply |-> ReplyError(EPERM)]

Min(a, b) == IF a < b THEN a ELSE b

\* u64::saturating_sub
saturating_sub(a, b) == IF a > b THEN a - b ELSE 0

\* The handler runs the describe command twice: in file.size(), whose value is
\* file_size, and in file.get_desc(), whose outcome is out_data.
\* Take::into_inner gives back the slice the Take was built from, so read_size
\* limits nothing.
read(fs, inode, offset, size_, file_size, out_data) ==
    LET file == get_file_by_inode(fs, inode)
    IN  IF file # <<>>
        THEN LET read_size == Min(size_, saturating_sub(file_size, offset))
                 desc == get_desc(file[1], out_data)
             IN  [fs |-> fs,
                  commands |-> get_desc_commands(file[1])
                               \o get_desc_commands(file[1]),
                  reply |-> IF offset > Len(desc)
                            THEN Panic    \* slice index out of range
                            ELSE ReplyData(SubSeq(desc, offset + 1, Len(desc)))]
        ELSE [fs |-> fs, commands |-> <<>>, reply |-> ReplyError(ENOENT)]

\* The loop of readdir from position index (counted from 0) of children.
\* cap is the number of entries the reply buffer accepts: ReplyDirectory::add
\* returns true, without adding, once the buffer is full.
RECURSIVE readdir_loop(_, _, _, _, _, _)
readdir_loop(table, children, offset, index, cap, added) ==
    IF index >= Len(children)
    THEN [entries |-> added, buffer_full |-> FALSE]
    ELSE LET child_inode == children[index + 1]
         IN  IF child_inode \in DOMAIN table
             THEN LET child_resource == table[child_inode].file
                  IN  IF Len(added) >= cap
                      THEN [entries |-> added, buffer_full |-> TRUE]
                      ELSE readdir_loop(table, children, offset, index + 1, cap,
                               Append(added,
                                      [ino |-> child_resource.inode,
                                       offset |-> offset + index + 1,
                                       kind |-> filetype(child_resource),
                                       name |-> child_resource.name]))
             ELSE readdir_loop(table, children, offset, index + 1, cap, added)

readdir(fs, inode, offset, cap) ==
    LET result == IF inode \in DOMAIN fs.inode_table
                  THEN readdir_loop(fs.inode_table,
                                    fs.inode_table[inode].children,
                                    offset, offset, cap, <<>>)
                  ELSE [entries |-> <<>>, buffer_full |-> FALSE]
    IN  [fs |-> fs,
         commands |-> <<>>,
         reply |-> IF result.buffer_full
                   THEN [ReplyError(ENOBUFS) EXCEPT !.entries = result.entries]
                   ELSE [ReplyOk EXCEPT !.entries = result.entries]]

----------------------------------------------------------------------------
(* The state machine: fuser calls init once, then the handlers in any order *)

FS == [inode_table |-> inode_table, next_inode |-> next_inode,
       allocated |-> allocated]

\* identifiers a request names: the keys of the table, the identifiers removed
\* from it, and one that was never allocated
Inodes == DOMAIN inode_table \cup removed \cup {next_inode}
\* parents of a mkdir or rmdir request: the root, the context, a namespace
ParentInodes == {ROOT_INODE, CONTEXT_INODE, FIRST_INODE}
Offsets == 0..MaxOffset
Sizes == 0..MaxSize
Caps == 1..MaxCap

\* fileattrs runs the describe command exactly for a regular file
DescribeOutcomes(file) ==
    OutcomesIf(file # <<>> /\ filetype(file[1]) = "RegularFile")

NoListing == [active |-> FALSE, dir |-> 0, cursor |-> 0, table |-> <<>>,
              seen |-> <<>>, done |-> FALSE]

Init ==
    /\ pc = "new"
    /\ inode_table = K8sFS_new.inode_table
    /\ next_inode = K8sFS_new.next_inode
    /\ allocated = K8sFS_new.allocated
    /\ removed = {}
    /\ reply = [op |-> "none", req |-> <<>>, commands |-> <<>>,
                res |-> Reply("none")]
    /\ listing = NoListing

\* a handler returns: the struct is stored, the reply recorded
Return(op, req, result) ==
    /\ inode_table' = result.fs.inode_table
    /\ next_inode' = result.fs.next_inode
    /\ allocated' = result.fs.allocated
    /\ removed' = removed \cup (DOMAIN inode_table \ DOMAIN result.fs.inode_table)
    /\ reply' = [op |-> op, req |-> req, commands |-> result.commands,
                 res |-> result.reply]
    /\ pc' = IF result.reply.status = "panic" THEN "crashed" ELSE "mounted"

\* Filesystem::init
Mount ==
    /\ pc = "new"
    /\ \E context \in ContextNames, cluster \in ClusterListings :
          LET fs == initialize_inode_table(FS, context, cluster)
          IN  /\ inode_table' = fs.inode_table
              /\ next_inode' = fs.next_inode
              /\ allocated' = fs.allocated
              /\ reply' = [op |-> "init", req |-> [cluster |-> cluster],
                           commands |-> <<>>, res |-> ReplyOk]
    /\ pc' = "mounted"
    /\ UNCHANGED <<removed, listing>>

Lookup ==
    /\ pc = "mounted"
    /\ \E parent \in Inodes, name \in RequestNames :
          \E out \in DescribeOutcomes(get_file_by_name(FS, name, parent)) :
             Return("lookup", [parent |-> parent, name |-> name, out |-> out],
                    lookup(FS, parent, name, out))
    /\ UNCHANGED listing

Getattr ==
    /\ pc = "mounted"
    /\ \E inode \in Inodes :
          \E out \in DescribeOutcomes(get_file_by_inode(FS, inode)) :
             Return("getattr", [inode |-> inode, out |-> out],
                    getattr(FS, inode, out))
    /\ UNCHANGED listing

\* create_namespace is run when the parent is the context; describe when the
\* new directory's own name makes it a regular file
Mkdir ==
    /\ pc = "mounted"
    /\ next_inode < MaxInode
    /\ \E parent \in ParentInodes, name \in RequestNames :
          \E created \in IF parent = CONTEXT_INODE THEN BOOLEAN ELSE {FALSE} :
             \E out \in OutcomesIf(created
                                   /\ name[Len(name)] = DEFINITION_FILE_SUFFIX) :
                Return("mkdir", [parent |-> parent, name |-> name,
                                 created |-> created, out |-> out],
                       mkdir(FS, parent, name, created, out))
    /\ UNCHANGED listing

\* the delete command is run when the name resolves under the context
Rmdir ==
    /\ pc = "mounted"
    /\ \E parent \in ParentInodes, name \in RequestNames :
          \E out \in OutcomesIf(parent = CONTEXT_INODE
                                /\ get_file_by_name(FS, name, parent) # <<>>) :
             Return("rmdir", [parent |-> parent, name |-> name, out |-> out],
                    rmdir(FS, parent, name, out))
    /\ UNCHANGED listing

\* the values file.size() can return: the lengths of get_desc over the outcomes
\* of its own run of the describe command
SizesOf(file) ==
    IF file = <<>> THEN {0}
    ELSE {size(file[1], out) : out \in DescribeOutcomes(file)}

\* size() and get_desc() each run the describe command of a regular file
Read ==
    /\ pc = "mounted"
    /\ \E inode \in Inodes, offset \in Offsets, size_ \in Sizes :
          \E file_size \in SizesOf(get_file_by_inode(FS, inode)),
             out_data \in DescribeOutcomes(get_file_by_inode(FS, inode)) :
             Return("read", [inode |-> inode, offset |-> offset, size |-> size_,
                             out |-> out_data],
                    read(FS, inode, offset, size_, file_size, out_data))
    /\ UNCHANGED listing

Readdir ==
    /\ pc = "mounted"
    /\ \E inode \in Inodes, offset \in Offsets, cap \in Caps :
          Return("readdir", [inode |-> inode, offset |-> offset, cap |-> cap],
                 readdir(FS, inode, offset, cap))
    /\ UNCHANGED listing

\* the structural operations alone
NextTree ==
    \/ Mount
    \/ Mkdir
    \/ Rmdir

SpecTree == Init /\ [][NextTree]_vars

\* A client begins to list directory dir from cursor 0
ListStart ==
    /\ pc = "mounted"
    /\ \E dir \in DOMAIN inode_table :
          listing' = [active |-> TRUE, dir |-> dir, cursor |-> 0,
                      table |-> inode_table, seen |-> <<>>, done |-> FALSE]
    /\ UNCHANGED <<pc, inode_table, next_inode, reply, allocated, removed>>

\* and calls readdir with the cursor of the last entry its buffer accepted,
\* until a call replies ok
ListNext ==
    /\ pc = "mounted"
    /\ listing.active
    /\ ~listing.done
    /\ \E cap \in Caps :
          LET result == readdir(FS, listing.dir, listing.cursor, cap)
              entries == result.reply.entries
          IN  /\ Return("readdir", [inode |-> listing.dir,
                                    offset |-> listing.cursor, cap |-> cap],
                        result)
              /\ listing' = [listing EXCEPT
                    !.seen = @ \o entries,
                    !.cursor = IF entries # <<>>
                               THEN entries[Len(entries)].offset ELSE @,
                    !.done = (result.reply.status = "ok")]

Next ==
    \/ Mount
    \/ Lookup
    \/ Getattr
    \/ Mkdir
    \/ Rmdir
    \/ Readdir

Spec == Init /\ [][Next]_vars

\* read over the trees that init builds
NextRead ==
    \/ Mount
    \/ Read

SpecRead == Init /\ [][NextRead]_vars

\* listings of the trees that init builds and mkdir grows
NextList ==
    \/ Mount
    \/ Mkdir
    \/ ListStart
    \/ ListNext

SpecList == Init /\ [][NextList]_vars

----------------------------------------------------------------------------
(* Properties *)

Context == inode_table[CONTEXT_INODE]

\* the struct after the step
FSNext == [inode_table |-> inode_table', next_inode |-> next_inode',
           allocated |-> allocated']

\* the identifier of the definition file that build_resource_file made for inode
HasDefinition(table, inode) ==
    \E d \in DOMAIN table :
        table[d].file = create_definition_file(table[inode].file, d)

DefinitionOf(table, inode) ==
    CHOOSE d \in DOMAIN table :
        table[d].file = create_definition_file(table[inode].file, d)

\* one pass over a directory from cursor 0 with a buffer that never fills
OnePass(inode) ==
    readdir(FS, inode, 0, Len(inode_table[inode].children) + 1).reply.entries

Pairs(entries) == {<<entries[i].ino, entries[i].name>> : i \in 1..Len(entries)}

\* no mkdir or rmdir has changed the table since the listing began: no step
\* brings back an earlier table, as a key once added or removed stays so
ListingUndisturbed == inode_table = listing.table

\* C1: a listing resumed from the cursor of the last accepted entry after each
\* full buffer yields, once complete, the (id, name) pairs of one unbounded
\* pass, none twice and none missing.
C1_ResumedListingIsOnePass ==
    (listing.active /\ listing.done /\ ListingUndisturbed)
        => /\ Pairs(listing.seen) = Pairs(OnePass(listing.dir))
           /\ Len(listing.seen) = Len(OnePass(listing.dir))

\* C2: read on an existing node at an offset at or past the end of its content
\* replies with empty data, never an error and never without a reply.
C2_ReadPastEndIsEmpty ==
    (/\ reply.op = "read"
     /\ reply.req.inode \in DOMAIN inode_table
     /\ reply.req.offset >= Len(get_desc(inode_table[reply.req.inode].file,
                                         reply.req.out)))
        => reply.res = ReplyData(<<>>)

\* the step is a rmdir under the context of a name that resolves, and the
\* delete command succeeds
RmdirOfPresentSucceeds ==
    /\ reply'.op = "rmdir"
    /\ reply'.req.parent = CONTEXT_INODE
    /\ get_file_by_name(FS, reply'.req.name, CONTEXT_INODE) # <<>>
    /\ delete(get_file_by_name(FS, reply'.req.name, CONTEXT_INODE)[1],
              reply'.req.out)

\* C3: a rmdir of a present namespace whose delete succeeds removes the
\* namespace and its definition file from the table and the namespace from the
\* context's children; getattr on either identifier is then not found.
C3_RmdirRemovesNamespaceAndDefinition ==
    [][RmdirOfPresentSucceeds =>
        LET namespace == get_file_by_name(FS, reply'.req.name, CONTEXT_INODE)[1].inode
            definition == DefinitionOf(inode_table, namespace)
        IN  /\ reply'.res = ReplyOk
            /\ namespace \notin DOMAIN inode_table'
            /\ definition \notin DOMAIN inode_table'
            /\ namespace \notin Range(inode_table'[CONTEXT_INODE].children)
            /\ getattr(FSNext, namespace, NotRun).reply = ReplyError(ENOENT)
            /\ getattr(FSNext, definition, NotRun).reply = ReplyError(ENOENT)
      ]_vars

\* C4: after a mkdir under the context that the backend accepts, a listing of
\* the context from cursor 0 has the new namespace and its definition file.
C4_MkdirListsNamespaceAndDefinition ==
    (reply.op = "mkdir" /\ reply.req.parent = CONTEXT_INODE /\ reply.req.created)
        => LET namespace == reply.res.attr.ino
               listed == {e.ino : e \in Range(OnePass(CONTEXT_INODE))}
           IN  /\ reply.res.status = "entry"
               /\ namespace \in DOMAIN inode_table
               /\ inode_table[namespace].file.name = reply.req.name
               /\ HasDefinition(inode_table, namespace)
               /\ namespace \in listed
               /\ DefinitionOf(inode_table, namespace) \in listed

\* C5: a mkdir under another parent than the context, or whose create command
\* fails, replies EPERM and leaves the table and the allocator as they were.
C5_FailedMkdirChangesNothing ==
    [][(/\ reply'.op = "mkdir"
        /\ (reply'.req.parent # CONTEXT_INODE \/ ~reply'.req.created))
          => /\ reply'.res = ReplyError(EPERM)
             /\ inode_table' = inode_table
             /\ next_inode' = next_inode
      ]_vars

C5_Witness ==
    /\ reply.op = "mkdir"
    /\ reply.req.parent = CONTEXT_INODE
    /\ ~reply.req.created
    /\ reply.res = ReplyError(EPERM)
    /\ Len(Context.children) > 0

\* C6: a rmdir under another parent than the context, or of a resolving name
\* whose delete command fails, replies EPERM and leaves the table as it was.
C6_FailedRmdirChangesNothing ==
    [][(/\ reply'.op = "rmdir"
        /\ \/ reply'.req.parent # CONTEXT_INODE
           \/ /\ get_file_by_name(FS, reply'.req.name, CONTEXT_INODE) # <<>>
              /\ ~delete(get_file_by_name(FS, reply'.req.name, CONTEXT_INODE)[1],
                         reply'.req.out))
          => /\ reply'.res = ReplyError(EPERM)
             /\ inode_table' = inode_table
      ]_vars

C6_Witness ==
    /\ reply.op = "rmdir"
    /\ reply.req.parent = CONTEXT_INODE
    /\ get_file_by_name(FS, reply.req.name, CONTEXT_INODE) # <<>>
    /\ reply.commands # <<>>
    /\ reply.res = ReplyError(EPERM)

\* C7: a rmdir under the context of a name that does not resolve replies ok,
\* runs no delete command and leaves the table as it was; so a rmdir of the
\* same name right after a rmdir that replied ok replies ok and changes nothing.
C7_RmdirOfAbsentIsIdempotent ==
    [][/\ (/\ reply'.op = "rmdir"
           /\ reply'.req.parent = CONTEXT_INODE
           /\ get_file_by_name(FS, reply'.req.name, CONTEXT_INODE) = <<>>)
             => /\ reply'.res = ReplyOk
                /\ reply'.commands = <<>>
                /\ inode_table' = inode_table
       /\ (/\ reply.op = "rmdir"
           /\ reply.req.parent = CONTEXT_INODE
           /\ reply.res = ReplyOk
           /\ reply'.op = "rmdir"
           /\ reply'.req.parent = CONTEXT_INODE
           /\ reply'.req.name = reply.req.name)
             => /\ reply'.res = ReplyOk
                /\ inode_table' = inode_table
      ]_vars

\* C8: the identifiers the allocator hands out strictly increase, every key of
\* the table but the root and the context is one of them, and an identifier
\* removed from the table is never a key again: getattr, read and readdir on
\* it find no node.
C8_IdentifiersNeverReused ==
    /\ \A i, j \in 1..Len(allocated) : i < j => allocated[i] < allocated[j]
    /\ DOMAIN inode_table \subseteq {ROOT_INODE, CONTEXT_INODE} \cup Range(allocated)
    /\ \A inode \in removed :
          /\ inode \in Range(allocated)
          /\ inode \notin DOMAIN inode_table
          /\ getattr(FS, inode, NotRun).reply = ReplyError(ENOENT)
          /\ read(FS, inode, 0, MaxSize, 0, NotRun).reply = ReplyError(ENOENT)
          /\ readdir(FS, inode, 0, MaxCap).reply.entries = <<>>

\* an identifier was removed and a later one is in the table
C8_Witness ==
    \E inode \in removed : \E later \in DOMAIN inode_table : later > inode

RECURSIVE SumOver(_, _)
SumOver(cluster, i) ==
    IF i > Len(cluster) THEN 0
    ELSE 2 + 2 * Len(cluster[i].pods) + SumOver(cluster, i + 1)

C10_ReaddirOfUnknownIsNotFound ==
    (reply.op = "readdir" /\ reply.req.inode \notin DOMAIN inode_table)
        => reply.res = ReplyError(ENOENT)

\* the describe command of the request did not succeed: spawn error or
\* non-zero exit
DescribeFailed(out) == ~(out.ok /\ out.success)

\* C11: for a definition file with content c, an offset of at most |c| and a
\* requested length len, read replies with exactly the bytes of c from offset
\* up to offset + min(len, |c| - offset), so never with more than len bytes.
C11_ReadReturnsTheRequestedSlice ==
    (/\ reply.op = "read"
     /\ reply.req.inode \in DOMAIN inode_table
     /\ is_definition_file(inode_table[reply.req.inode].file)
     /\ reply.req.offset <= Len(get_desc(inode_table[reply.req.inode].file,
                                         reply.req.out)))
        => LET c == get_desc(inode_table[reply.req.inode].file, reply.req.out)
               offset == reply.req.offset
               len == Min(reply.req.size, Len(c) - offset)
           IN  /\ reply.res = ReplyData(SubSeq(c, offset + 1, offset + len))
               /\ Len(reply.res.data) <= reply.req.size

\* C12: when the describe command of a definition file fails, its content is
\* empty: getattr reports size 0 and read replies with empty data, not with an
\* error.
C12_FailedDescribeReadsAsEmpty ==
    (/\ reply.op = "read"
     /\ reply.req.inode \in DOMAIN inode_table
     /\ is_definition_file(inode_table[reply.req.inode].file)
     /\ DescribeFailed(reply.req.out))
        => /\ getattr(FS, reply.req.inode, reply.req.out).reply.status = "attr"
           /\ getattr(FS, reply.req.inode, reply.req.out).reply.attr.size = 0
           /\ reply.res = ReplyData(<<>>)

\* name resolution over the trees that init builds and mkdir and rmdir change
NextLookup ==
    \/ Mount
    \/ Mkdir
    \/ Rmdir
    \/ Lookup

SpecLookup == Init /\ [][NextLookup]_vars

\* the children of parent that are in the table under the name
ChildrenNamed(parent, name) ==
    IF parent \in DOMAIN inode_table
    THEN {c \in Range(inode_table[parent].children) :
             c \in DOMAIN inode_table /\ inode_table[c].file.name = name}
    ELSE {}

\* C13: when lookup(p, n) replies with the attributes of identifier i, a
\* getattr(i) right after it replies with the same identifier, file type and
\* permissions, and i is a child of p named n; lookup replies ENOENT exactly
\* when no child of p is named n.
C13_LookupAgreesWithGetattr ==
    reply.op = "lookup" =>
        LET found == ChildrenNamed(reply.req.parent, reply.req.name)
            i == reply.res.attr.ino
        IN  /\ reply.res.status \in {"entry", "error"}
            /\ reply.res.status = "error" <=> found = {}
            /\ reply.res.status = "error" => reply.res = ReplyError(ENOENT)
            /\ reply.res.status = "entry" =>
                  /\ i \in found
                  /\ \A out \in CommandOutcomes :
                        LET attr == getattr(FS, i, out).reply
                        IN  /\ attr.status = "attr"
                            /\ attr.attr.ino = i
                            /\ attr.attr.kind = reply.res.attr.kind
                            /\ attr.attr.perm = reply.res.attr.perm

\* a lookup under a namespace resolved its definition file
C13_Witness ==
    /\ reply.op = "lookup"
    /\ reply.res.status = "entry"
    /\ reply.req.parent \notin {ROOT_INODE, CONTEXT_INODE}
    /\ reply.res.attr.kind = "RegularFile"

\* the entries whose child list has inode
Holders(table, inode) ==
    {e \in DOMAIN table : inode \in Range(table[e].children)}

\* C14: the parent field of every node but the root names an entry of the
\* table, that entry's child list has the node, and no other entry's has it.
C14_ParentHoldsTheNode ==
    \A inode \in DOMAIN inode_table \ {ROOT_INODE} :
        Holders(inode_table, inode) = {inode_table[inode].file.parent}

\* C15: no two members of one child list have the same name.
C15_SiblingNamesAreUnique ==
    \A e \in DOMAIN inode_table :
        LET children == inode_table[e].children
        IN  \A i, j \in 1..Len(children) :
                (/\ children[i] \in DOMAIN inode_table
                 /\ children[j] \in DOMAIN inode_table
                 /\ inode_table[children[i]].file.name =
                        inode_table[children[j]].file.name) => i = j

\* C16: every identifier in a child list is a key of the table.
C16_NoDanglingChildren ==
    \A e \in DOMAIN inode_table :
        Range(inode_table[e].children) \subseteq DOMAIN inode_table

\* a rmdir has removed a namespace and the context still has children
C16_Witness ==
    /\ removed # {}
    /\ CONTEXT_INODE \in DOMAIN inode_table
    /\ Context.children # <<>>
    /\ reply.op = "rmdir"

\* a namespace or pod directory that build_resource_file made
CreatedDirectory(table, inode) ==
    /\ table[inode].file.resource_type \in {"Namespace", "Pod"}
    /\ HasDefinition(table, inode)

\* C17: the definition file of every namespace or pod directory is a member
\* of the child list of the directory's parent and not of the directory's own.
C17_DefinitionIsASibling ==
    \A D \in DOMAIN inode_table :
        CreatedDirectory(inode_table, D) =>
            LET definition == DefinitionOf(inode_table, D)
                parent == inode_table[D].file.parent
            IN  /\ parent \in DOMAIN inode_table
                /\ definition \in Range(inode_table[parent].children)
                /\ definition \notin Range(inode_table[D].children)

-----------------------------------------------------------------------------
(* The handlers that run kubectl, in two steps.  A handler is a method on  *)
(* &mut self and waits in Command::output() or status() for the command to *)
(* exit; the session that main.rs mounts owns the one K8sFS and calls one  *)
(* handler at a time.  pc = "blocked" is the handler waiting, the struct   *)
(* borrowed.                                                               *)

\* the handler has started command and waits for it
Pending(op, req, command) ==
    /\ reply' = [op |-> op, req |-> req, commands |-> <<command>>,
                 res |-> Reply("pending")]
    /\ pc' = "blocked"
    /\ UNCHANGED <<inode_table, next_inode, allocated, removed, listing>>

\* mkdir up to kubectl::create_namespace; no command under another parent
MkdirCall ==
    /\ pc = "mounted"
    /\ next_inode < MaxInode
    /\ \E parent \in ParentInodes, name \in RequestNames :
          IF parent = CONTEXT_INODE
          THEN Pending("mkdir", [parent |-> parent, name |-> name],
                       create_namespace_command(name, Context.file.name))
          ELSE /\ Return("mkdir", [parent |-> parent, name |-> name,
                                   created |-> FALSE, out |-> NotRun],
                         mkdir(FS, parent, name, FALSE, NotRun))
               /\ UNCHANGED listing

\* create_namespace has returned: the rest of mkdir
MkdirReturn ==
    /\ pc = "blocked"
    /\ reply.op = "mkdir"
    /\ \E created \in BOOLEAN :
          \E out \in OutcomesIf(created /\ reply.req.name[Len(reply.req.name)]
                                              = DEFINITION_FILE_SUFFIX) :
             Return("mkdir", [parent |-> reply.req.parent, name |-> reply.req.name,
                              created |-> created, out |-> out],
                    mkdir(FS, reply.req.parent, reply.req.name, created, out))
    /\ UNCHANGED listing

\* rmdir up to file.delete(); no command when the name does not resolve under
\* the context
RmdirCall ==
    /\ pc = "mounted"
    /\ \E parent \in ParentInodes, name \in RequestNames :
          LET file == get_file_by_name(FS, name, parent)
          IN  IF parent = CONTEXT_INODE /\ file # <<>>
              THEN Pending("rmdir", [parent |-> parent, name |-> name],
                           file[1].delete_cmd)
              ELSE /\ Return("rmdir", [parent |-> parent, name |-> name,
                                       out |-> NotRun],
                             rmdir(FS, parent, name, NotRun))
                   /\ UNCHANGED listing

\* delete has returned: the rest of rmdir
RmdirReturn ==
    /\ pc = "blocked"
    /\ reply.op = "rmdir"
    /\ \E out \in CommandOutcomes :
          Return("rmdir", [parent |-> reply.req.parent, name |-> reply.req.name,
                           out |-> out],
                 rmdir(FS, reply.req.parent, reply.req.name, out))
    /\ UNCHANGED listing

\* read up to the describe command of file.size(); no command for a directory
\* or an unknown inode
ReadCall ==
    /\ pc = "mounted"
    /\ \E inode \in Inodes, offset \in Offsets, size_ \in Sizes :
          LET file == get_file_by_inode(FS, inode)
          IN  IF file # <<>> /\ filetype(file[1]) = "RegularFile"
              THEN Pending("read", [inode |-> inode, offset |-> offset,
                                    size |-> size_],
                           file[1].description_cmd)
              ELSE /\ Return("read", [inode |-> inode, offset |-> offset,
                                      size |-> size_, out |-> NotRun],
                             read(FS, inode, offset, size_, 0, NotRun))
                   /\ UNCHANGED listing

\* the describe commands have returned: the rest of read
ReadReturn ==
    /\ pc = "blocked"
    /\ reply.op = "read"
    /\ LET file == get_file_by_inode(FS, reply.req.inode)
       IN  \E file_size \in SizesOf(file), out_data \in DescribeOutcomes(file) :
              Return("read", [inode |-> reply.req.inode,
                              offset |-> reply.req.offset,
                              size |-> reply.req.size, out |-> out_data],
                     read(FS, reply.req.inode, reply.req.offset, reply.req.size,
                          file_size, out_data))
    /\ UNCHANGED listing

\* the handlers that wait for kubectl, and name resolution and attributes
\* beside them
NextBlocking ==
    \/ Mount
    \/ MkdirCall
    \/ MkdirReturn
    \/ RmdirCall
    \/ RmdirReturn
    \/ ReadCall
    \/ ReadReturn
    \/ Lookup
    \/ Getattr

SpecBlocking == Init /\ [][NextBlocking]_vars

\* C18: while a handler waits for its describe, create or delete command, a
\* lookup, a getattr and a readdir can each start and complete.
C18_OthersRunWhileBlocked ==
    pc = "blocked" => /\ ENABLED Lookup
                      /\ ENABLED Getattr
                      /\ ENABLED Readdir

\* what a node was made as: ResourceFile::new builds the describe command
\* around the node's own name, create_definition_file copies the directory's
NodeKind(file) ==
    IF \/ file.resource_type \in {"Root", "Context"}
       \/ file.description_cmd[Len(file.description_cmd)] = file.name
    THEN file.resource_type
    ELSE "Definition"

\* C19: every root, context, namespace and pod node is reported as a directory
\* with permissions 0o555 and every definition node as a regular file with
\* 0o444, whatever the node's name.
C19_TypeFollowsTheKind ==
    \A inode \in DOMAIN inode_table : \A out \in CommandOutcomes :
        LET file == inode_table[inode].file
            attr == fileattrs(file, out)
        IN  IF NodeKind(file) = "Definition"
            THEN attr.kind = "RegularFile" /\ attr.perm = 292
            ELSE attr.kind = "Directory" /\ attr.perm = 365

\* the least number of blocks of BLOCK_SIZE bytes that hold n bytes
CeilBlocks(n) == (n + BLOCK_SIZE - 1) \div BLOCK_SIZE

\* C20: the block count in the attributes of every node is the size divided by
\* the block unit 1024, rounded up, so 0 for size 0; a directory has size 0.
C20_BlocksAreSizeOverBlockSize ==
    \A inode \in DOMAIN inode_table : \A out \in CommandOutcomes :
        LET attr == fileattrs(inode_table[inode].file, out)
        IN  /\ attr.blocks = CeilBlocks(attr.size)
            /\ attr.size = 0 => attr.blocks = 0
            /\ attr.kind = "Directory" => attr.size = 0

-----------------------------------------------------------------------------
(* mkdir statement by statement: the struct after each statement of the    *)
(* accepted branch that changes it (build_resource_file, then              *)
(* add_child_to_inode).                                                    *)

\* mkdir_steps that pushes the namespace onto the context's children before the
\* entries are inserted
mkdir_steps_link_first(fs, parent, name, created) ==
    IF parent = CONTEXT_INODE /\ created
    THEN LET context == fs.inode_table[CONTEXT_INODE].file.name
             first == calculate_next_inode(fs)
             file == ResourceFile_new(first.inode, CONTEXT_INODE, name,
                                      "Namespace", context, name)
             second == calculate_next_inode(first.fs)
             definition_file == create_definition_file(file, second.inode)
             linked == add_child_to_inode(second.fs, CONTEXT_INODE, first.inode)
             with_definition ==
                 [linked EXCEPT !.inode_table =
                     Insert(@, definition_file.inode,
                            [file |-> definition_file, children |-> <<>>])]
             with_file ==
                 [with_definition EXCEPT !.inode_table =
                     Insert(@, first.inode,
                            [file |-> file,
                             children |-> <<definition_file.inode>>])]
         IN  <<first.fs, second.fs, linked, with_definition, with_file>>
    ELSE <<>>

mkdir_steps(fs, parent, name, created) ==
    IF parent = CONTEXT_INODE /\ created
    THEN LET context == fs.inode_table[CONTEXT_INODE].file.name
             first == calculate_next_inode(fs)
             file == ResourceFile_new(first.inode, CONTEXT_INODE, name,
                                      "Namespace", context, name)
             second == calculate_next_inode(first.fs)
             definition_file == create_definition_file(file, second.inode)
             with_definition ==
                 [second.fs EXCEPT !.inode_table =
                     Insert(@, definition_file.inode,
                            [file |-> definition_file, children |-> <<>>])]
             with_file ==
                 [with_definition EXCEPT !.inode_table =
                     Insert(@, first.inode,
                            [file |-> file,
                             children |-> <<definition_file.inode>>])]
             linked == add_child_to_inode(with_file, CONTEXT_INODE, first.inode)
         IN  <<first.fs, second.fs, with_definition, with_file, linked>>
    ELSE <<>>

\* mkdir starts; it replies at once when it changes nothing
MkdirBegin ==
    /\ pc = "mounted"
    /\ next_inode < MaxInode
    /\ \E parent \in ParentInodes, name \in RequestNames :
          \E created \in IF parent = CONTEXT_INODE THEN BOOLEAN ELSE {FALSE} :
             \E out \in OutcomesIf(created
                                   /\ name[Len(name)] = DEFINITION_FILE_SUFFIX) :
                IF mkdir_steps(FS, parent, name, created) = <<>>
                THEN Return("mkdir", [parent |-> parent, name |-> name,
                                      created |-> created, out |-> out],
                            mkdir(FS, parent, name, created, out))
                ELSE /\ reply' = [op |-> "mkdir",
                                  req |-> [parent |-> parent, name |-> name,
                                           created |-> created, out |-> out,
                                           before |-> FS, step |-> 0],
                                  commands |-> <<>>, res |-> Reply("pending")]
                     /\ pc' = "in_mkdir"
                     /\ UNCHANGED <<inode_table, next_inode, allocated, removed>>
    /\ UNCHANGED listing

\* the next statement of mkdir; the last one is followed by the reply
MkdirStep ==
    /\ pc = "in_mkdir"
    /\ LET req == reply.req
           steps == mkdir_steps(req.before, req.parent, req.name, req.created)
           step == req.step + 1
       IN  IF step < Len(steps)
           THEN /\ inode_table' = steps[step].inode_table
                /\ next_inode' = steps[step].next_inode
                /\ allocated' = steps[step].allocated
                /\ reply' = [reply EXCEPT !.req.step = step]
                /\ UNCHANGED <<pc, removed>>
           ELSE LET result == mkdir(req.before, req.parent, req.name,
                                    req.created, req.out)
                IN  Return("mkdir", [parent |-> req.parent, name |-> req.name,
                                     created |-> req.created, out |-> req.out],
                           [fs |-> steps[step], commands |-> result.commands,
                            reply |-> result.reply])
    /\ UNCHANGED listing

NextSteps ==
    \/ Mount
    \/ MkdirBegin
    \/ MkdirStep
    \/ Rmdir

SpecSteps == Init /\ [][NextSteps]_vars

\* C21: at every statement of mkdir every identifier in the context's child
\* list is a key of the table: the entries of the definition file and of the
\* namespace are inserted before the namespace is appended to the list; and
\* the statements together do what mkdir does.
C21_EntriesBeforeTheLink ==
    /\ CONTEXT_INODE \in DOMAIN inode_table =>
          Range(Context.children) \subseteq DOMAIN inode_table
    /\ pc = "in_mkdir" =>
          LET req == reply.req
              steps == mkdir_steps(req.before, req.parent, req.name, req.created)
          IN  /\ steps[Len(steps)] =
                    mkdir(req.before, req.parent, req.name, req.created, req.out).fs
              /\ \A inode \in Range(Context.children) \ Range(req.before.inode_table[CONTEXT_INODE].children) :
                    /\ inode \in DOMAIN inode_table
                    /\ HasDefinition(inode_table, inode)

\* mkdir has inserted both entries and has not yet appended the namespace
C21_Witness ==
    /\ pc = "in_mkdir"
    /\ reply.req.step = 4
    /\ \E inode \in DOMAIN inode_table \ DOMAIN reply.req.before.inode_table :
          /\ inode_table[inode].file.resource_type = "Namespace"
          /\ HasDefinition(inode_table, inode)
          /\ inode \notin Range(Context.children)

-----------------------------------------------------------------------------
(* The handlers that only answer.  The request and the bytes of the answer *)
(* go to the kernel and are not kept: of a served request the record keeps *)
(* the handler and the status of its reply.                                *)

Served(op, result) ==
    Return(op, <<>>, [fs |-> result.fs, commands |-> <<>>,
                      reply |-> Reply(result.reply.status)])

LookupServed ==
    /\ pc = "mounted"
    /\ \E parent \in Inodes, name \in RequestNames :
          \E out \in DescribeOutcomes(get_file_by_name(FS, name, parent)) :
             Served("lookup", lookup(FS, parent, name, out))
    /\ UNCHANGED listing

GetattrServed ==
    /\ pc = "mounted"
    /\ \E inode \in Inodes :
          \E out \in DescribeOutcomes(get_file_by_inode(FS, inode)) :
             Served("getattr", getattr(FS, inode, out))
    /\ UNCHANGED listing

ReaddirServed ==
    /\ pc = "mounted"
    /\ \E inode \in Inodes, offset \in Offsets, cap \in Caps :
          Served("readdir", readdir(FS, inode, offset, cap))
    /\ UNCHANGED listing

ReadServed ==
    /\ pc = "mounted"
    /\ \E inode \in Inodes, offset \in Offsets, size_ \in Sizes :
          \E file_size \in SizesOf(get_file_by_inode(FS, inode)),
             out_data \in DescribeOutcomes(get_file_by_inode(FS, inode)) :
             Served("read", read(FS, inode, offset, size_, file_size, out_data))
    /\ UNCHANGED listing

\* the answering handlers over the trees that init builds and mkdir grows
NextFrame ==
    \/ Mount
    \/ Mkdir
    \/ LookupServed
    \/ GetattrServed
    \/ ReaddirServed
    \/ ReadServed

SpecFrame == Init /\ [][NextFrame]_vars

\* C22: lookup, getattr, readdir and read leave inode_table and next_inode as
\* they were, whatever the request and the reply; once mounted, a step that
\* changes either is a mkdir or a rmdir.
C22_ReadersChangeNothing ==
    [][/\ reply'.op \in {"lookup", "getattr", "readdir", "read"} =>
             UNCHANGED <<inode_table, next_inode>>
       /\ (pc # "new" /\ <<inode_table, next_inode>>' # <<inode_table, next_inode>>)
             => reply'.op \in {"mkdir", "rmdir"}
      ]_vars

\* a read of a definition file has been answered with data
C22_Witness ==
    /\ reply.op = "read"
    /\ reply.res.status = "data"
    /\ Cardinality(DOMAIN inode_table) > 2

\* C23: once mounted the table has the root at 0 and the context at 1, as
\* init made them, the root's child list is exactly the context, and every
\* other entry has an identifier greater than 1; mkdir and rmdir neither
\* remove nor replace the two.
C23_RootAndContextStay ==
    pc # "new" =>
        /\ ROOT_INODE \in DOMAIN inode_table
        /\ CONTEXT_INODE \in DOMAIN inode_table
        /\ inode_table[ROOT_INODE].file =
              ResourceFile_new(ROOT_INODE, ROOT_INODE, <<"root">>, "Root",
                               <<>>, <<>>)
        /\ inode_table[ROOT_INODE].children = <<CONTEXT_INODE>>
        /\ \E context \in ContextNames :
              Context.file = ResourceFile_new(CONTEXT_INODE, ROOT_INODE, context,
                                              "Context", context, <<>>)
        /\ \A inode \in DOMAIN inode_table :
              /\ inode_table[inode].file.inode = inode
              /\ inode_table[inode].file.resource_type \in {"Namespace", "Pod"}
                    <=> inode > CONTEXT_INODE
              /\ inode_table[inode].file.resource_type = "Root"
                    <=> inode = ROOT_INODE

\* rmdir has removed the last namespace of the context
C23_Witness ==
    /\ pc = "mounted"
    /\ reply.op = "rmdir"
    /\ reply.res = ReplyOk
    /\ removed # {}
    /\ Context.children = <<>>

\* the identifiers that child lists lead to from those in seen
RECURSIVE ReachableFrom(_, _)
ReachableFrom(table, seen) ==
    LET more == seen \cup {c \in DOMAIN table :
                              \E e \in seen \cap DOMAIN table :
                                  c \in Range(table[e].children)}
    IN  IF more = seen THEN seen ELSE ReachableFrom(table, more)

\* C24: every key of the table is reached from the root through child lists;
\* getattr on an identifier that is not reached is not found, so nothing of a
\* removed namespace stays behind.
C24_EveryNodeIsReachable ==
    pc # "new" =>
        LET reached == ReachableFrom(inode_table, {ROOT_INODE})
        IN  /\ DOMAIN inode_table \subseteq reached
            /\ \A inode \in Inodes \ reached : \A out \in CommandOutcomes :
                  getattr(FS, inode, out).reply = ReplyError(ENOENT)

====
